---- MODULE Spec2Model ----
(***************************************************************************)
(* The record-ingestion pipeline of HomeTask10.py: record classes, content *)
(* hash, SQLite store (DatabaseManager) and publisher                      *)
(* (EnhancedNewsFeedManager); the city coordinate table of Final.py         *)
(* (CityDistanceCalculator); the list and dictionary functions of          *)
(* HomeTask7.py.                                                           *)
(*                                                                         *)
(* Strings are sequences of one-character strings.  Time is counted in     *)
(* ticks (one tick = one second of CURRENT_TIMESTAMP resolution), a day    *)
(* being TicksPerDay ticks long.  A Python exception is a result record    *)
(* with raised = TRUE carrying the exception class in exc.                 *)
(***************************************************************************)
EXTENDS Integers, Sequences, FiniteSets, TLC

\* ---- bounds of the model ------------------------------------------------
MaxCalls == 2        \* calls of the store / publisher API in one run
MaxNow == 1          \* last tick of the clock
TicksPerDay == 2     \* length of a day in ticks
RecursionLimit == 3  \* depth of the interpreter's call stack
MaxBatch == 3        \* the elements of a 'records' collection
MaxLen == 4          \* the length of a list handed to bubble_sort_manual
MaxDicts == 2        \* the dictionaries in a list handed to create_merged_dict

VARIABLES
    cur,       \* the FeedRecord object at hand: <<>> or <<record>>
    tables,    \* the SQLite file: table name -> sequence of rows (rowid order)
    autoinc,   \* sqlite_sequence: table name -> last AUTOINCREMENT id
    log,       \* the news feed text file: sequence of appended blocks
    now,       \* the wall clock, in ticks
    last,      \* the last call of the store / publisher API and what it returned
    inv,       \* independent invocations of publish_record: pid -> frame
    file,      \* the input file in the json_input / xml_input folder
    cities     \* the cities table of Final.py: sequence of rows (rowid order)

vars == <<cur, tables, autoinc, log, now, last, inv, file, cities>>

\* ---- strings ------------------------------------------------------------
Whitespace == {" "}

RECURSIVE LStrip(_)
LStrip(s) == IF s # <<>> /\ Head(s) \in Whitespace THEN LStrip(Tail(s)) ELSE s

RECURSIVE RStrip(_)
RStrip(s) ==
    IF s # <<>> /\ s[Len(s)] \in Whitespace THEN RStrip(SubSeq(s, 1, Len(s) - 1)) ELSE s

\* str.strip()
Strip(s) == RStrip(LStrip(s))

\* dict.get(key, '')
Get(data, key) == IF key \in DOMAIN data THEN data[key] ELSE <<>>

\* ---- calendar -----------------------------------------------------------
\* The date strings of the model and the day each one names; every other
\* string makes strptime raise ValueError.
DateToday == <<"2","0","2","6","-","1","1","-","0","3">>
DateTomorrow == <<"2","0","2","6","-","1","1","-","0","4">>
DateBad == <<"s","o","o","n">>

\* datetime.strptime(s, "%Y-%m-%d"): the tick of that day's midnight
Strptime(s) ==
    CASE s = DateToday -> [raised |-> FALSE, value |-> 0]
      [] s = DateTomorrow -> [raised |-> FALSE, value |-> TicksPerDay]
      [] OTHER -> [raised |-> TRUE, value |-> 0]

\* timedelta.days of (a - b): the floor of the difference in days
FloorDiv(a, b) == IF a >= 0 THEN a \div b ELSE -((-a + b - 1) \div b)
DaysBetween(a, b) == FloorDiv(a - b, TicksPerDay)

\* ---- record classes -----------------------------------------------------
NewsCls == "NewsRecord"
AdCls == "PrivateAdRecord"
WeatherCls == "WeatherAlertRecord"
Classes == {NewsCls, AdCls, WeatherCls}

\* FeedRecord.__init__ with each subclass's __init__; rnd is what
\* random.choices draws for a weather alert
GenerateAlertId(rnd) == <<"W", "A", "-">> \o rnd

NewsRecord(text, city, t) ==
    [cls |-> NewsCls, text |-> Strip(text), timestamp |-> t, city |-> city]

PrivateAdRecord(text, expiration_date, t) ==
    [cls |-> AdCls, text |-> Strip(text), timestamp |-> t,
     expiration_date_str |-> expiration_date,
     expiration_date |-> <<>>,          \* None
     days_left |-> 0]

WeatherAlertRecord(text, severity, location, t, rnd) ==
    [cls |-> WeatherCls, text |-> Strip(text), timestamp |-> t,
     severity |-> severity, location |-> location,
     alert_id |-> GenerateAlertId(rnd)]

\* get_record_type_name
RecordTypeName(self) ==
    CASE self.cls = NewsCls -> "News"
      [] self.cls = AdCls -> "Private Ad"
      [] self.cls = WeatherCls -> "Weather Alert"

\* get_duplicate_check_fields
DuplicateCheckFields(self) ==
    CASE self.cls = NewsCls -> <<"text", "city">>
      [] self.cls = AdCls -> <<"text", "expiration_date">>
      [] self.cls = WeatherCls -> <<"text", "severity", "location">>

Ok(v) == [raised |-> FALSE, exc |-> "", value |-> v]
Raise(e) == [raised |-> TRUE, exc |-> e, value |-> <<>>]

\* ---- decoders -----------------------------------------------------------
\* from_json_data without the "Validate required fields" checks
FromJsonData_Unchecked(cls, data, t, rnd) ==
    CASE cls = NewsCls -> Ok(NewsRecord(Get(data, "text"), Get(data, "city"), t))
      [] cls = AdCls ->
            Ok(PrivateAdRecord(Get(data, "text"), Get(data, "expiration_date"), t))
      [] cls = WeatherCls ->
            Ok(WeatherAlertRecord(Get(data, "text"), Get(data, "severity"),
                                  Get(data, "location"), t, rnd))

\* from_json_data of the three classes; data is the payload dict
FromJsonData(cls, data, t, rnd) ==
    CASE cls = NewsCls ->
            IF Get(data, "text") = <<>> THEN Raise("ValueError:text")
            ELSE IF Get(data, "city") = <<>> THEN Raise("ValueError:city")
            ELSE Ok(NewsRecord(Get(data, "text"), Get(data, "city"), t))
      [] cls = AdCls ->
            IF Get(data, "text") = <<>> THEN Raise("ValueError:text")
            ELSE IF Get(data, "expiration_date") = <<>>
                 THEN Raise("ValueError:expiration_date")
            ELSE Ok(PrivateAdRecord(Get(data, "text"), Get(data, "expiration_date"), t))
      [] cls = WeatherCls ->
            IF Get(data, "text") = <<>> THEN Raise("ValueError:text")
            ELSE IF Get(data, "severity") = <<>> THEN Raise("ValueError:severity")
            ELSE IF Get(data, "location") = <<>> THEN Raise("ValueError:location")
            ELSE Ok(WeatherAlertRecord(Get(data, "text"), Get(data, "severity"),
                                       Get(data, "location"), t, rnd))

\* from_xml_element of the three classes; element maps each child tag to its
\* text, a missing child and a child without text both reading as <<>>
FromXmlElement(cls, element, t, rnd) ==
    CASE cls = NewsCls ->
            IF Get(element, "text") = <<>> THEN Raise("ValueError:text")
            ELSE IF Get(element, "city") = <<>> THEN Raise("ValueError:city")
            ELSE Ok(NewsRecord(Strip(Get(element, "text")), Strip(Get(element, "city")), t))
      [] cls = AdCls ->
            IF Get(element, "text") = <<>> THEN Raise("ValueError:text")
            ELSE IF Get(element, "expiration_date") = <<>>
                 THEN Raise("ValueError:expiration_date")
            ELSE Ok(PrivateAdRecord(Strip(Get(element, "text")),
                                    Strip(Get(element, "expiration_date")), t))
      [] cls = WeatherCls ->
            IF Get(element, "text") = <<>> THEN Raise("ValueError:text")
            ELSE IF Get(element, "severity") = <<>> THEN Raise("ValueError:severity")
            ELSE IF Get(element, "location") = <<>> THEN Raise("ValueError:location")
            ELSE Ok(WeatherAlertRecord(Strip(Get(element, "text")),
                                       Strip(Get(element, "severity")),
                                       Strip(Get(element, "location")), t, rnd))

\* ---- interactive input ---------------------------------------------------
\* What the prompts of get_user_input end with: each loop repeats until the
\* answer is accepted, so only accepted answers are drawn.
SeverityOptions == {<<"L","o","w">>, <<"M","e","d","i","u","m">>, <<"H","i","g","h">>,
                    <<"C","r","i","t","i","c","a","l">>}

TypedAnswers ==
    {[city |-> <<"c">>, date |-> DateTomorrow,
      severity |-> <<"H","i","g","h">>, location |-> <<"c">>]}

\* get_user_input of the three classes
GetUserInput(self, t, typed) ==
    CASE self.cls = NewsCls ->
            Ok(IF self.city = <<>> THEN [self EXCEPT !.city = typed.city] ELSE self)
      [] self.cls = AdCls ->
            IF self.expiration_date_str = <<>>
            THEN Ok([self EXCEPT !.expiration_date_str = typed.date,
                                 !.expiration_date = <<Strptime(typed.date).value>>,
                                 !.days_left = DaysBetween(Strptime(typed.date).value, t)])
            ELSE IF Strptime(self.expiration_date_str).raised
                 THEN Raise("ValueError:expiration_date")
                 ELSE Ok([self EXCEPT
                            !.expiration_date = <<Strptime(self.expiration_date_str).value>>,
                            !.days_left =
                                DaysBetween(Strptime(self.expiration_date_str).value, t)])
      [] self.cls = WeatherCls ->
            Ok([self EXCEPT
                  !.severity = IF self.severity = <<>> THEN typed.severity ELSE @,
                  !.location = IF self.location = <<>> THEN typed.location ELSE @])

\* ---- rendering ----------------------------------------------------------
\* strftime("%Y-%m-%d %H:%M") and isoformat(): the day and the time of day
Strftime(t) == [day |-> t \div TicksPerDay, minute |-> t % TicksPerDay]
IsoFormat(t) == [date |-> t \div TicksPerDay, time |-> t % TicksPerDay]

\* the block of a private ad, inp being what get_user_input left
FormatPrivateAd(inp, self) ==
    IF inp.raised
    THEN [raised |-> TRUE, exc |-> inp.exc, self |-> self, value |-> <<>>]
    ELSE [raised |-> FALSE, exc |-> "", self |-> inp.value,
          value |-> [header |-> "Private Ad -------------------",
                     text |-> inp.value.text,
                     actual_until |-> inp.value.expiration_date_str,
                     days_left |-> inp.value.days_left]]

\* format_for_publication that calls self._generate_alert_id() again
FormatWeatherAlert_NewId(me) ==
    [raised |-> FALSE, exc |-> "", self |-> [me EXCEPT !.alert_id = GenerateAlertId(<<"N","E","W","0">>)],
     value |-> [header |-> "Weather Alert ----------------",
                alert_id |-> GenerateAlertId(<<"N","E","W","0">>),
                severity |-> me.severity,
                text |-> me.text,
                location |-> me.location,
                date |-> Strftime(me.timestamp)]]

\* the block of a weather alert
FormatWeatherAlert(me) ==
    [raised |-> FALSE, exc |-> "", self |-> me,
     value |-> [header |-> "Weather Alert ----------------",
                alert_id |-> me.alert_id,
                severity |-> me.severity,
                text |-> me.text,
                location |-> me.location,
                date |-> Strftime(me.timestamp)]]

\* format_for_publication of the three classes: the rendered block, and the
\* object as the call leaves it
FormatForPublication(self, t, typed) ==
    CASE self.cls = NewsCls ->
            [raised |-> FALSE, exc |-> "", self |-> self,
             value |-> [header |-> "News -------------------------",
                        text |-> self.text,
                        city |-> self.city,
                        date |-> Strftime(self.timestamp)]]
      [] self.cls = AdCls ->
            FormatPrivateAd(IF self.expiration_date = <<>>
                            THEN GetUserInput(self, t, typed) ELSE Ok(self), self)
      [] self.cls = WeatherCls ->
            FormatWeatherAlert(IF self.severity = <<>> \/ self.location = <<>>
                               THEN GetUserInput(self, t, typed).value ELSE self)

\* ---- content hash -------------------------------------------------------
\* hashlib.sha256(...).hexdigest(): collision-free, so a digest is
\* represented by the content it was computed from
Sha256(content) == [sha256 |-> content]

RECURSIVE Concat(_, _)
\* the loop of generate_content_hash over check_fields
Concat(fields, db_data) ==
    IF fields = <<>> THEN <<>>
    ELSE (IF Head(fields) \in DOMAIN db_data THEN db_data[Head(fields)] ELSE <<>>)
         \o Concat(Tail(fields), db_data)

\* the parse of the expiration date at the head of
\* PrivateAdRecord.get_database_data; ValueError is swallowed
ParseExpiration(self, t) ==
    IF self.cls = AdCls /\ self.expiration_date = <<>> /\ self.expiration_date_str # <<>>
       /\ ~Strptime(self.expiration_date_str).raised
    THEN [self EXCEPT
            !.expiration_date = <<Strptime(self.expiration_date_str).value>>,
            !.days_left = DaysBetween(Strptime(self.expiration_date_str).value, t)]
    ELSE self

\* the dict literal each get_database_data returns
DatabaseDict(self, content_hash) ==
    CASE self.cls = NewsCls ->
            [text |-> self.text, city |-> self.city,
             timestamp |-> IsoFormat(self.timestamp), content_hash |-> content_hash]
      [] self.cls = AdCls ->
            [text |-> self.text, expiration_date |-> self.expiration_date_str,
             days_left |-> self.days_left,
             timestamp |-> IsoFormat(self.timestamp), content_hash |-> content_hash]
      [] self.cls = WeatherCls ->
            [text |-> self.text, severity |-> self.severity, location |-> self.location,
             alert_id |-> self.alert_id,
             timestamp |-> IsoFormat(self.timestamp), content_hash |-> content_hash]

Raised(e, self) == [raised |-> TRUE, exc |-> e, value |-> <<>>, self |-> self]
Returned(v, self) == [raised |-> FALSE, exc |-> "", value |-> v, self |-> self]

RECURSIVE GenerateContentHash(_, _, _)
RECURSIVE GetDatabaseData(_, _, _)

\* the return statement of get_database_data, h being what
\* self.generate_content_hash() came to
DatabaseDataOf(h) ==
    IF h.raised THEN Raised(h.exc, h.self)
    ELSE Returned(DatabaseDict(h.self, h.value), h.self)

\* get_database_data of the three classes, entered as frame number depth of
\* the interpreter's stack: it evaluates self.generate_content_hash() for
\* the 'content_hash' entry of the dict it builds
GetDatabaseData(self, t, depth) ==
    IF depth > RecursionLimit THEN Raised("RecursionError", self)
    ELSE DatabaseDataOf(GenerateContentHash(ParseExpiration(self, t), t, depth + 1))

\* the body of generate_content_hash after db_data is there
ContentHashOf(db) ==
    IF db.raised THEN Raised(db.exc, db.self)
    ELSE Returned(Sha256(Concat(DuplicateCheckFields(db.self), db.value)), db.self)

\* FeedRecord.generate_content_hash, entered as frame number depth: it
\* evaluates self.get_database_data() for the values of the check fields
GenerateContentHash(self, t, depth) ==
    IF depth > RecursionLimit THEN Raised("RecursionError", self)
    ELSE ContentHashOf(GetDatabaseData(self, t, depth + 1))

\* ---- the store (DatabaseManager) -----------------------------------------
TableNames == {"news_records", "private_ad_records", "weather_alert_records"}

\* get_table_name_for_record
GetTableNameForRecord(self) ==
    CASE self.cls = NewsCls -> "news_records"
      [] self.cls = AdCls -> "private_ad_records"
      [] self.cls = WeatherCls -> "weather_alert_records"

\* INSERT INTO table (columns) VALUES (...) under the schema of
\* table_schemas: content_hash is UNIQUE, id is AUTOINCREMENT and created_at
\* defaults to CURRENT_TIMESTAMP
SqlInsert(rows, last_id, data, t) ==
    IF \E k \in 1..Len(rows) : rows[k]["content_hash"] = data["content_hash"]
    THEN [raised |-> TRUE, exc |-> "IntegrityError", rows |-> rows, last_id |-> last_id]
    ELSE [raised |-> FALSE, exc |-> "", last_id |-> last_id + 1,
          rows |-> Append(rows, [c \in DOMAIN data \cup {"id", "created_at"} |->
                                    CASE c = "id" -> last_id + 1
                                      [] c = "created_at" -> t
                                      [] OTHER -> data[c]])]

\* SELECT COUNT(*) FROM table WHERE content_hash = ?
SqlCountHash(rows, content_hash) ==
    Cardinality({k \in 1..Len(rows) : rows[k]["content_hash"] = content_hash})

\* check_duplicate after content_hash is there: any exception is printed
\* and answered with False
DuplicateAnswer(h, tbls) ==
    IF h.raised THEN [ret |-> FALSE, self |-> h.self]
    ELSE [ret |-> SqlCountHash(tbls[GetTableNameForRecord(h.self)], h.value) > 0,
          self |-> h.self]

\* check_duplicate
CheckDuplicate(self, tbls, t) == DuplicateAnswer(GenerateContentHash(self, t, 1), tbls)

\* save_record from cursor.execute(sql, values) on; path names the return
\* statement the call leaves by
SaveExecute(ins, self, tbls, ai) ==
    IF ins.raised
    THEN [ret |-> FALSE, path |-> "integrity", self |-> self,
          tables |-> tbls, autoinc |-> ai]
    ELSE [ret |-> TRUE, path |-> "saved", self |-> self,
          tables |-> [tbls EXCEPT ![GetTableNameForRecord(self)] = ins.rows],
          autoinc |-> [ai EXCEPT ![GetTableNameForRecord(self)] = ins.last_id]]

\* save_record from record_data = record.get_database_data() on
SaveInsert(db, tbls, ai, t) ==
    IF db.raised
    THEN [ret |-> FALSE, path |-> "error", self |-> db.self,
          tables |-> tbls, autoinc |-> ai]
    ELSE SaveExecute(SqlInsert(tbls[GetTableNameForRecord(db.self)],
                               ai[GetTableNameForRecord(db.self)], db.value, t),
                     db.self, tbls, ai)

\* save_record after check_duplicate returned dup
SaveChecked(dup, tbls, ai, t) ==
    IF dup.ret
    THEN [ret |-> FALSE, path |-> "duplicate", self |-> dup.self,
          tables |-> tbls, autoinc |-> ai]
    ELSE SaveInsert(GetDatabaseData(dup.self, t, 1), tbls, ai, t)

\* save_record
SaveRecord(self, tbls, ai, t) == SaveChecked(CheckDuplicate(self, tbls, t), tbls, ai, t)

\* clear_all_records: DELETE FROM every table
ClearedTables == [tn \in TableNames |-> <<>>]

\* get_record_count() for all types
GetRecordCount(tbls) ==
    [news |-> Len(tbls["news_records"]),
     private_ad |-> Len(tbls["private_ad_records"]),
     weather_alert |-> Len(tbls["weather_alert_records"])]

\* ---- the publisher (EnhancedNewsFeedManager) ----------------------------
\* append_to_file: an I/O error is printed and swallowed
AppendToFile(lg, content, io_ok) == IF io_ok THEN Append(lg, content) ELSE lg

\* publish_record after format_for_publication: an exception is printed and
\* answered with False
PublishAppend(fmt, self, db, tbls, ai, lg, io_ok) ==
    IF fmt.raised
    THEN [ret |-> FALSE, db |-> db, self |-> self, rendered |-> FALSE,
          tables |-> tbls, autoinc |-> ai, log |-> lg]
    ELSE [ret |-> TRUE, db |-> db, self |-> fmt.self, rendered |-> TRUE,
          tables |-> tbls, autoinc |-> ai, log |-> AppendToFile(lg, fmt.value, io_ok)]

\* publish_record from "Save to file" on
PublishToFile(self, db, tbls, ai, lg, t, io_ok, typed) ==
    PublishAppend(FormatForPublication(self, t, typed), self, db, tbls, ai, lg, io_ok)

\* publish_record without the "if not db_success: return False"
PublishSaved_IgnoreResult(sr, lg, t, io_ok, typed) ==
    PublishToFile(sr.self, sr.path, sr.tables, sr.autoinc, lg, t, io_ok, typed)

\* publish_record with the early return taken when the save succeeded
PublishSaved_ReturnOnSuccess(sr, lg, t, io_ok, typed) ==
    IF sr.ret
    THEN [ret |-> FALSE, db |-> sr.path, self |-> sr.self, rendered |-> FALSE,
          tables |-> sr.tables, autoinc |-> sr.autoinc, log |-> lg]
    ELSE PublishToFile(sr.self, sr.path, sr.tables, sr.autoinc, lg, t, io_ok, typed)

\* publish_record after save_record returned sr
PublishSaved(sr, lg, t, io_ok, typed) ==
    IF ~sr.ret
    THEN [ret |-> FALSE, db |-> sr.path, self |-> sr.self, rendered |-> FALSE,
          tables |-> sr.tables, autoinc |-> sr.autoinc, log |-> lg]
    ELSE PublishToFile(sr.self, sr.path, sr.tables, sr.autoinc, lg, t, io_ok, typed)

\* publish_record that saves whatever save_to_database says
PublishRecord_AlwaysSave(self, save_to_database, tbls, ai, lg, t, io_ok, typed) ==
    PublishSaved(SaveRecord(self, tbls, ai, t), lg, t, io_ok, typed)

\* publish_record: the return value with the state the call leaves behind;
\* db names the return path of save_record ("none" when it is not called)
PublishRecord(self, save_to_database, tbls, ai, lg, t, io_ok, typed) ==
    IF save_to_database
    THEN PublishSaved(SaveRecord(self, tbls, ai, t), lg, t, io_ok, typed)
    ELSE PublishToFile(self, "none", tbls, ai, lg, t, io_ok, typed)

\* ---- inputs --------------------------------------------------------------
Sources == {"json", "xml"}
RandomDraws == {<<"A","A","A","A">>, <<"Z","9","Z","9">>}

\* the values a payload gives each field
FieldValues(field) ==
    CASE field = "text" -> {<<>>, <<"a">>}
      [] field = "city" -> {<<>>, <<"c">>}
      [] field = "expiration_date" -> {<<>>, DateTomorrow, DateBad}
      [] field = "severity" -> {<<>>, <<"H","i","g","h">>}
      [] field = "location" -> {<<>>, <<"c">>}

PayloadFields(cls) ==
    CASE cls = NewsCls -> {"text", "city"}
      [] cls = AdCls -> {"text", "expiration_date"}
      [] cls = WeatherCls -> {"text", "severity", "location"}

\* the 'data' dict of a JSON envelope, or the children of an XML <record>
Payloads(cls) == {d \in [PayloadFields(cls) -> UNION {FieldValues(f) : f \in PayloadFields(cls)}] :
                    \A f \in PayloadFields(cls) : d[f] \in FieldValues(f)}

\* only a weather alert draws from random.choices
Draws(cls) == IF cls = WeatherCls THEN RandomDraws ELSE {<<>>}

Decoded(src, cls, data, t, rnd) ==
    IF src = "json" THEN FromJsonData(cls, data, t, rnd) ELSE FromXmlElement(cls, data, t, rnd)

\* the record at hand after a decoder ran
Built(r, old) == IF r.raised THEN old ELSE <<r.value>>

\* ---- observations -------------------------------------------------------
\* the attribute get_database_data stores under a column
FieldOf(self, f) == IF f = "expiration_date" THEN self.expiration_date_str ELSE self[f]

\* the variant with the values of its duplicate check fields: what makes
\* two records the same logical entry
LogicalKey(self) ==
    [cls |-> self.cls,
     fields |-> [i \in 1..Len(DuplicateCheckFields(self)) |->
                    FieldOf(self, DuplicateCheckFields(self)[i])]]

\* the rows of the record's table that hold the same values in the
\* duplicate check fields
RowsFor(self, tbls) ==
    {k \in 1..Len(tbls[GetTableNameForRecord(self)]) :
        \A i \in 1..Len(DuplicateCheckFields(self)) :
            tbls[GetTableNameForRecord(self)][k][DuplicateCheckFields(self)[i]]
                = FieldOf(self, DuplicateCheckFields(self)[i])}

\* n counts the calls; arg is the record as it was passed
NoCall ==
    [n |-> 0, op |-> "none", arg |-> <<>>, persist |-> FALSE, io_ok |-> FALSE, ret |-> FALSE,
     raised |-> FALSE, db |-> "none", rendered |-> FALSE, fresh |-> FALSE,
     inserted |-> FALSE, appended |-> FALSE, digest |-> <<>>,
     exc |-> "", input |-> <<>>, out |-> <<>>, reports |-> <<>>, outcomes |-> <<>>]

\* no input file in the folder
NoFile == [fmt |-> "none", top |-> {}, elems |-> <<>>]

Idle == [pc |-> "idle", self |-> <<>>, dup |-> FALSE, db_success |-> FALSE,
         ret |-> FALSE, appended |-> FALSE]
Procs == {1, 2}

\* ---- the city coordinate table (Final.py) -------------------------------
\* Coordinates are whole degrees.  A row is [name, latitude, longitude,
\* country]; the table is the sequence of its rows in rowid order.

\* the limits save_city_coordinates validates against
LatLimit == 90
LonLimit == 180

\* SQLite's built-in LOWER(): it folds the ASCII letters and no others
SqlLowerChar(c) ==
    CASE c = "L" -> "l"
      [] c = "O" -> "o"
      [] c = "S" -> "s"
      [] OTHER -> c
SqlLower(name) == [i \in 1..Len(name) |-> SqlLowerChar(name[i])]

\* initial_cities: one city with an ASCII name (London) and one whose name
\* has a letter outside ASCII (Sao Paulo, with a tilde on the a)
InitialCities ==
    <<[name |-> <<"L", "o">>, latitude |-> 51, longitude |-> 0, country |-> "UK"],
      [name |-> <<"S", "ã">>, latitude |-> -23, longitude |-> -46, country |-> "Brazil"]>>

\* INSERT INTO cities under name TEXT UNIQUE (binary collation), the
\* IntegrityError of a name already there being skipped
SqlInsertCity(rows, row) ==
    IF \E i \in 1..Len(rows) : rows[i].name = row.name THEN rows ELSE Append(rows, row)

\* the loop over initial_cities
RECURSIVE InsertInitialCities(_, _)
InsertInitialCities(rows, todo) ==
    IF todo = <<>> THEN rows
    ELSE InsertInitialCities(SqlInsertCity(rows, Head(todo)), Tail(todo))

\* populate_initial_cities: only a table with no row at all is filled
PopulateInitialCities(rows) ==
    IF Len(rows) = 0 THEN InsertInitialCities(rows, InitialCities) ELSE rows

\* INSERT OR REPLACE INTO cities: the row with exactly this name, if any, is
\* deleted and the new row gets a fresh rowid
SqlInsertOrReplace(rows, row) ==
    Append(SelectSeq(rows, LAMBDA r : r.name # row.name), row)

\* save_city_coordinates: what it returns and the table it leaves
SaveCityCoordinates(rows, city_name, latitude, longitude, country) ==
    IF ~(-LatLimit <= latitude /\ latitude <= LatLimit)
    THEN [ret |-> FALSE, rows |-> rows]
    ELSE IF ~(-LonLimit <= longitude /\ longitude <= LonLimit)
    THEN [ret |-> FALSE, rows |-> rows]
    ELSE [ret |-> TRUE,
          rows |-> SqlInsertOrReplace(rows, [name |-> city_name, latitude |-> latitude,
                                             longitude |-> longitude, country |-> country])]

\* the rows SELECT ... WHERE LOWER(name) = LOWER(?) yields
SelectCity(rows, city_name) ==
    {i \in 1..Len(rows) : SqlLower(rows[i].name) = SqlLower(city_name)}

\* ---- the state machine --------------------------------------------------
Init ==
    /\ cur = <<>>
    /\ tables = [tn \in TableNames |-> <<>>]
    /\ autoinc = [tn \in TableNames |-> 0]
    /\ log = <<>>
    /\ now = 0
    /\ last = NoCall
    /\ inv = [p \in Procs |-> Idle]
    /\ file = NoFile
    /\ cities = PopulateInitialCities(<<>>)

\* time passes
Tick ==
    /\ now < MaxNow
    /\ now' = now + 1
    /\ UNCHANGED <<cur, tables, autoinc, log, last, inv, file, cities>>

\* a decoder builds the record at hand from a payload; a payload it rejects
\* builds nothing
Decode ==
    \E src \in Sources, cls \in Classes :
      \E data \in Payloads(cls), rnd \in Draws(cls) :
        /\ cur' = Built(Decoded(src, cls, data, now, rnd), cur)
        /\ UNCHANGED <<tables, autoinc, log, now, last, inv, file, cities>>

\* record.generate_content_hash()
Hash ==
    /\ cur # <<>>
    /\ last.n < MaxCalls
    /\ LET h == GenerateContentHash(cur[1], now, 1)
       IN  /\ cur' = <<h.self>>
           /\ last' = [NoCall EXCEPT !.n = last.n + 1, !.op = "hash", !.arg = cur, !.raised = h.raised,
                                     !.ret = ~h.raised,
                                     !.digest = IF h.raised THEN <<>> ELSE <<h.value>>]
    /\ UNCHANGED <<tables, autoinc, log, now, inv, file, cities>>

\* database_manager.save_record(record)
Save ==
    /\ cur # <<>>
    /\ last.n < MaxCalls
    /\ LET r == SaveRecord(cur[1], tables, autoinc, now)
       IN  /\ cur' = <<r.self>>
           /\ tables' = r.tables
           /\ autoinc' = r.autoinc
           /\ last' = [NoCall EXCEPT !.n = last.n + 1, !.op = "save", !.arg = cur, !.persist = TRUE,
                                     !.ret = r.ret, !.db = r.path,
                                     !.fresh = RowsFor(cur[1], tables) = {},
                                     !.inserted = r.tables # tables]
    /\ UNCHANGED <<log, now, inv, file, cities>>

\* database_manager.clear_all_records()
ClearAll ==
    /\ last.n < MaxCalls
    /\ tables' = ClearedTables
    /\ last' = [NoCall EXCEPT !.n = last.n + 1, !.op = "clear", !.ret = TRUE]
    /\ UNCHANGED <<cur, autoinc, log, now, inv, file, cities>>

\* one call of publish_record(record, save_to_database); io_ok tells whether
\* the news feed file can be opened and written
PublishStep(save_to_database, typed, io_ok) ==
    /\ cur # <<>>
    /\ last.n < MaxCalls
    /\ LET r == PublishRecord(cur[1], save_to_database, tables, autoinc, log, now,
                              io_ok, typed)
       IN  /\ cur' = <<r.self>>
           /\ tables' = r.tables
           /\ autoinc' = r.autoinc
           /\ log' = r.log
           /\ last' = [NoCall EXCEPT !.n = last.n + 1, !.op = "publish", !.arg = cur,
                                     !.persist = save_to_database, !.io_ok = io_ok,
                                     !.ret = r.ret, !.db = r.db,
                                     !.rendered = r.rendered,
                                     !.fresh = RowsFor(cur[1], tables) = {},
                                     !.inserted = r.tables # tables,
                                     !.appended = r.log # log]
    /\ UNCHANGED <<now, inv, file, cities>>

\* publish_record(record, save_to_database), the news feed file being
\* writable
Publish ==
    \E save_to_database \in BOOLEAN, typed \in TypedAnswers :
        PublishStep(save_to_database, typed, TRUE)

Next == Tick \/ Decode \/ Hash \/ Save \/ ClearAll \/ Publish

Spec == Init /\ [][Next]_vars

\* ---- independent invocations ---------------------------------------------
\* Two runs of the program on the same database file and news feed file,
\* each publishing one record with save_to_database = True.  A run holds
\* its own record object; a step is one statement that reads or writes the
\* shared files.

\* a run decodes its record
InvStart ==
    \E p \in Procs, src \in Sources, cls \in Classes :
      \E data \in Payloads(cls), rnd \in Draws(cls) :
        /\ inv[p].pc = "idle"
        /\ ~Decoded(src, cls, data, now, rnd).raised
        /\ inv' = [inv EXCEPT ![p] = [Idle EXCEPT !.pc = "check",
                                        !.self = <<Decoded(src, cls, data, now, rnd).value>>]]
        /\ UNCHANGED <<cur, tables, autoinc, log, now, last, file, cities>>

\* save_record: the SELECT of check_duplicate
InvCheckDuplicate ==
    \E p \in Procs :
        /\ inv[p].pc = "check"
        /\ LET dup == CheckDuplicate(inv[p].self[1], tables, now)
           IN  inv' = [inv EXCEPT ![p].pc = "save", ![p].dup = dup.ret,
                                  ![p].self = <<dup.self>>]
        /\ UNCHANGED <<cur, tables, autoinc, log, now, last, file, cities>>

\* save_record: the rest, with the INSERT and its commit
InvSave ==
    \E p \in Procs :
        /\ inv[p].pc = "save"
        /\ LET r == SaveChecked([ret |-> inv[p].dup, self |-> inv[p].self[1]],
                                tables, autoinc, now)
           IN  /\ tables' = r.tables
               /\ autoinc' = r.autoinc
               /\ inv' = [inv EXCEPT ![p].pc = "file", ![p].db_success = r.ret,
                                      ![p].self = <<r.self>>]
        /\ UNCHANGED <<cur, log, now, last, file, cities>>

\* publish_record after save_record returned
InvFile ==
    \E p \in Procs, typed \in TypedAnswers :
        /\ inv[p].pc = "file"
        /\ LET r == PublishSaved([ret |-> inv[p].db_success, path |-> "",
                                  self |-> inv[p].self[1],
                                  tables |-> tables, autoinc |-> autoinc],
                                 log, now, TRUE, typed)
           IN  /\ log' = r.log
               /\ inv' = [inv EXCEPT ![p].pc = "done", ![p].ret = r.ret,
                                      ![p].appended = r.log # log,
                                      ![p].self = <<r.self>>]
        /\ UNCHANGED <<cur, tables, autoinc, now, last, file, cities>>

NextRace == Tick \/ InvStart \/ InvCheckDuplicate \/ InvSave \/ InvFile

SpecRace == Init /\ [][NextRace]_vars

\* ---- the news feed file failing -------------------------------------------
\* publish_record when open() or write() of the news feed file may raise
PublishIO ==
    \E save_to_database \in BOOLEAN, typed \in TypedAnswers, io_ok \in BOOLEAN :
        PublishStep(save_to_database, typed, io_ok)

NextIO == Tick \/ Decode \/ PublishIO

SpecIO == Init /\ [][NextIO]_vars

\* ---- the decoders on their own ----------------------------------------------
\* What a payload may give a field: nothing, whitespace alone, a value, a
\* value with whitespace around it.
DecoderFieldValues(field) ==
    CASE field = "text" -> {<<>>, <<" ">>, <<"a">>, <<" ", "a", " ">>}
      [] field = "city" -> {<<>>, <<" ">>, <<"c">>}
      [] field = "expiration_date" -> {<<>>, <<" ">>, DateTomorrow}
      [] field = "severity" -> {<<>>, <<" ">>, <<"H","i","g","h">>}
      [] field = "location" -> {<<>>, <<" ">>, <<"c">>}

\* the payloads with any of the fields left out
DecoderPayloads(cls) ==
    UNION {{d \in [fs -> UNION {DecoderFieldValues(f) : f \in fs}] :
                \A f \in fs : d[f] \in DecoderFieldValues(f)} :
           fs \in SUBSET PayloadFields(cls)}

\* what a call of a decoder came to: the error it raised or the record it
\* returned
DecoderCall(src, cls, data, r) ==
    /\ last' = [NoCall EXCEPT !.n = last.n, !.op = "decode", !.raised = r.raised,
                              !.ret = ~r.raised, !.exc = r.exc,
                              !.input = <<[src |-> src, cls |-> cls, data |-> data]>>,
                              !.out = IF r.raised THEN <<>> ELSE <<r.value>>]
    /\ UNCHANGED <<cur, tables, autoinc, log, now, inv, file, cities>>

\* record_class.from_json_data(record_data)
DecodeJson ==
    \E cls \in Classes :
      \E data \in DecoderPayloads(cls), rnd \in Draws(cls) :
        DecoderCall("json", cls, data, FromJsonData(cls, data, now, rnd))

\* record_class.from_xml_element(record_element)
DecodeXml ==
    \E cls \in Classes :
      \E element \in DecoderPayloads(cls), rnd \in Draws(cls) :
        DecoderCall("xml", cls, element, FromXmlElement(cls, element, now, rnd))

NextDecode == Tick \/ DecodeJson \/ DecodeXml

SpecDecode == Init /\ [][NextDecode]_vars

\* ---- publishing from a file --------------------------------------------------
\* One pass of publish_from_json / publish_from_xml over an input file that
\* was put in the folder before.  A file is its format, its top level (the
\* keys of the JSON object, or the tag of the XML root) and its envelopes;
\* an envelope is [type, data].

\* str.lower() on the type tags below
Lower(tag) == IF tag = "News" THEN "news" ELSE tag

\* self.record_type_mapping
RecordTypeMapping ==
    [news |-> NewsCls, private_ad |-> AdCls, weather_alert |-> WeatherCls]

\* the envelopes a file is made of: two that decode, one with a required
\* field missing, one with an unknown type
FileElements ==
    {[type |-> "News", data |-> [text |-> <<"a">>, city |-> <<"c">>]],
     [type |-> "private_ad", data |-> [text |-> <<"a">>, expiration_date |-> DateTomorrow]],
     [type |-> "news", data |-> [text |-> <<"a">>]],
     [type |-> "blog", data |-> [text |-> <<"a">>, city |-> <<"c">>]]}

\* the branch _parse_json_records takes, with 'type' alone read as a single
\* record
JsonShape_TypeOnly(top) ==
    IF "records" \in top THEN "records"
    ELSE IF "type" \in top THEN "record"
    ELSE "invalid"

\* the branch _parse_json_records takes
JsonShape(top) ==
    IF "records" \in top THEN "records"
    ELSE IF "type" \in top /\ "data" \in top THEN "record"
    ELSE "invalid"

\* the branch _parse_xml_records takes on root.tag
XmlShape(top) ==
    IF top = {"records"} THEN "records"
    ELSE IF top = {"record"} THEN "record"
    ELSE "invalid"

Shape(f) == IF f.fmt = "json" THEN JsonShape(f.top) ELSE XmlShape(f.top)

\* the top levels of the model
Tops(fmt) ==
    IF fmt = "json" THEN {{"records"}, {"type", "data"}, {"type"}, {}}
    ELSE {{"records"}, {"record"}, {"feed"}}

\* self.record_type_mapping.get(record_type, NewsRecord)
RecordClassFor_DefaultNews(record_type) ==
    IF record_type \in DOMAIN RecordTypeMapping
    THEN Ok(RecordTypeMapping[record_type]) ELSE Ok(NewsCls)

\* self.record_type_mapping[record_type]
RecordClassFor(record_type) ==
    IF record_type \in DOMAIN RecordTypeMapping
    THEN Ok(RecordTypeMapping[record_type]) ELSE Raise("KeyError")

\* record_class.from_json_data(record_data) / from_xml_element(element);
\* none of the envelopes is a weather alert, so nothing is drawn
DecodeElement(fmt, record_class, elem, t) ==
    IF record_class.raised THEN record_class
    ELSE Decoded(fmt, record_class.value, elem.data, t, <<>>)

\* the try block around one envelope
ParseElement(fmt, elem, t) ==
    DecodeElement(fmt, RecordClassFor(Lower(Get(elem, "type"))), elem, t)

RECURSIVE ParseRecords(_, _, _, _)
\* the loop over the envelopes: acc holds what each try block came to
ParseRecords(fmt, elems, t, acc) ==
    IF elems = <<>> THEN acc
    ELSE ParseRecords(fmt, Tail(elems), t, Append(acc, ParseElement(fmt, Head(elems), t)))

\* _parse_json_records / _parse_xml_records
ParseFile(shape, f, t) ==
    IF shape = "invalid"
    THEN [raised |-> TRUE, exc |-> "ValueError:format", reports |-> <<>>]
    ELSE [raised |-> FALSE, exc |-> "", reports |-> ParseRecords(f.fmt, f.elems, t, <<>>)]

\* process_json_file / process_xml_file of a processor that reads files of
\* format fmt: without a file of its format _get_file_path raises
ProcessFile(fmt, f, t) ==
    IF f.fmt # fmt
    THEN [raised |-> TRUE, exc |-> "FileNotFoundError", reports |-> <<>>]
    ELSE ParseFile(Shape(f), f, t)

RECURSIVE RecordsOf(_)
\* the list the parser returns: the records of the envelopes that decoded
RecordsOf(reports) ==
    IF reports = <<>> THEN <<>>
    ELSE (IF Head(reports).raised THEN <<>> ELSE <<Head(reports).value>>)
         \o RecordsOf(Tail(reports))

\* one turn of the loop of _process_file_records
Published(r, st) ==
    [tables |-> r.tables, autoinc |-> r.autoinc, log |-> r.log,
     outcomes |-> Append(st.outcomes, r.ret)]

RECURSIVE PublishAll(_, _, _, _, _)
\* the loop of _process_file_records
PublishAll(records, save_to_database, t, typed, st) ==
    IF records = <<>> THEN st
    ELSE PublishAll(Tail(records), save_to_database, t, typed,
                    Published(PublishRecord(Head(records), save_to_database, st.tables,
                                            st.autoinc, st.log, t, TRUE, typed), st))

\* a file is put in the folder: a single envelope comes with the file, a
\* collection starts empty
CreateFile ==
    \E fmt \in Sources :
      \E top \in Tops(fmt), e \in FileElements :
        /\ file = NoFile
        /\ last.op = "none"
        /\ file' = [fmt |-> fmt, top |-> top,
                    elems |-> IF Shape([fmt |-> fmt, top |-> top]) = "record"
                              THEN <<e>> ELSE <<>>]
        /\ UNCHANGED <<cur, tables, autoinc, log, now, last, inv, cities>>

\* one more envelope in the collection
AppendElement ==
    \E e \in FileElements :
        /\ file # NoFile
        /\ last.op = "none"
        /\ Shape(file) = "records"
        /\ Len(file.elems) < MaxBatch
        /\ file' = [file EXCEPT !.elems = Append(@, e)]
        /\ UNCHANGED <<cur, tables, autoinc, log, now, last, inv, cities>>

\* publish_from_json / publish_from_xml: the file is parsed, the records are
\* published in order, and the user may have the processed file removed
PublishFromFile(fmt, save_to_database, cleanup, typed, p) ==
    /\ last.op = "none"
    /\ LET st == PublishAll(RecordsOf(p.reports), save_to_database, now, typed,
                            [tables |-> tables, autoinc |-> autoinc, log |-> log,
                             outcomes |-> <<>>])
       IN  /\ tables' = st.tables
           /\ autoinc' = st.autoinc
           /\ log' = st.log
           /\ last' = [NoCall EXCEPT !.n = last.n + 1, !.op = "file",
                                     !.input = <<[processor |-> fmt, file |-> file]>>,
                                     !.persist = save_to_database,
                                     !.raised = p.raised, !.exc = p.exc,
                                     !.reports = [i \in 1..Len(p.reports) |-> p.reports[i].exc],
                                     !.outcomes = st.outcomes,
                                     !.inserted = st.tables # tables,
                                     !.appended = st.log # log]
    /\ file' = IF cleanup /\ RecordsOf(p.reports) # <<>> THEN NoFile ELSE file
    /\ UNCHANGED <<cur, now, inv, cities>>

PublishFromJson ==
    \E save_to_database \in BOOLEAN, cleanup \in BOOLEAN, typed \in TypedAnswers :
        PublishFromFile("json", save_to_database, cleanup, typed,
                        ProcessFile("json", file, now))

PublishFromXml ==
    \E save_to_database \in BOOLEAN, cleanup \in BOOLEAN, typed \in TypedAnswers :
        PublishFromFile("xml", save_to_database, cleanup, typed,
                        ProcessFile("xml", file, now))

NextFile == Tick \/ CreateFile \/ AppendElement \/ PublishFromJson \/ PublishFromXml

SpecFile == Init /\ [][NextFile]_vars

\* ---- properties ----------------------------------------------------------
\* this step is a call of publish_record
PublishCall == last'.n = last.n + 1 /\ last'.op = "publish"

\* the record renders: format_for_publication raises for a private ad
\* alone, when its expiration date does not parse
Renders(self) == self.cls = AdCls => ~Strptime(self.expiration_date_str).raised

Headers ==
    [NewsRecord |-> "News -------------------------",
     PrivateAdRecord |-> "Private Ad -------------------",
     WeatherAlertRecord |-> "Weather Alert ----------------"]

\* C1: publishing the same logical record twice with persist = true, to a
\* store that does not hold it, gives one Published and one Skipped outcome
\* and leaves exactly one row for the record in its table.
C1_PublishedThenSkipped ==
    [][(/\ last.op = "publish" /\ last.persist /\ last.fresh
        /\ PublishCall /\ last'.persist
        /\ LogicalKey(last'.arg[1]) = LogicalKey(last.arg[1]))
       => (/\ last.ret # last'.ret
           /\ Cardinality(RowsFor(last'.arg[1], tables')) = 1)]_vars

\* C2: generate_content_hash returns a digest for every record: it neither
\* raises nor recurses without end.
C2_HashReturnsDigest ==
    last.op = "hash" => (~last.raised /\ last.digest # <<>>)

C6_BlockOnlyWithRow ==
    [][(PublishCall /\ last'.persist)
       => (/\ log' # log => (last'.db = "saved" /\ tables' # tables)
           /\ last'.db # "saved" => (log' = log /\ ~last'.appended))]_vars

C6_Witness ==
    /\ last.op = "publish" /\ last.persist
    /\ last.db = "error"
    /\ ~last.appended
    /\ log = <<>>

\* C7: two invocations that publish the same logical record with
\* persist = true, their check_duplicate and INSERT steps interleaved in any
\* order, end with one Published and one Skipped, one row for the record
\* and one block more in the log.
C7_OneWinner ==
    (/\ \A p \in Procs : inv[p].pc = "done"
     /\ LogicalKey(inv[1].self[1]) = LogicalKey(inv[2].self[1]))
        => (/\ inv[1].ret # inv[2].ret
            /\ Cardinality(RowsFor(inv[1].self[1], tables)) = 1
            /\ Len(log) = 1)

\* no row is ever stored: every INSERT of save_record is preceded by
\* record.get_database_data(), which raises RecursionError, so the tables
\* and their rowid counters stay as initialize_database left them
NoRowEverStored ==
    /\ \A tn \in TableNames : tables[tn] = <<>>
    /\ \A tn \in TableNames : autoinc[tn] = 0

\* the two records differ in what the fingerprint leaves out
DiffersOutsideKey(a, b) ==
    \/ a.timestamp # b.timestamp
    \/ a.cls = WeatherCls /\ a.alert_id # b.alert_id

\* C10: two records of one variant with equal duplicate check fields have
\* the same fingerprint, whatever their timestamps and alert identifiers.
C10_SameKeySameFingerprint ==
    [][(/\ last.op = "hash"
        /\ last'.n = last.n + 1 /\ last'.op = "hash"
        /\ LogicalKey(last'.arg[1]) = LogicalKey(last.arg[1])
        /\ DiffersOutsideKey(last'.arg[1], last.arg[1]))
       => (/\ last.digest # <<>>
           /\ last'.digest = last.digest)]_vars

\* this step is a call of generate_content_hash that follows another one
HashAfterHash == last.op = "hash" /\ last'.n = last.n + 1 /\ last'.op = "hash"

\* C11: two records of one variant that differ in at least one duplicate
\* check field get fingerprints, and the fingerprints differ.
C11_DifferentKeyDifferentFingerprint ==
    [][(/\ HashAfterHash
        /\ last'.arg[1].cls = last.arg[1].cls
        /\ LogicalKey(last'.arg[1]) # LogicalKey(last.arg[1]))
       => (/\ last.digest # <<>>
           /\ last'.digest # <<>>
           /\ last'.digest # last.digest)]_vars

\* the two calls are made on one record: same variant, same field values,
\* same timestamp and alert identifier
SameRecord(a, b) ==
    /\ LogicalKey(a) = LogicalKey(b)
    /\ ~DiffersOutsideKey(a, b)

\* C12: generate_content_hash called twice on one record returns the same
\* fingerprint both times.
C12_SameFingerprintTwice ==
    [][(HashAfterHash /\ SameRecord(last'.arg[1], last.arg[1]))
       => (/\ ~last.raised /\ ~last'.raised
           /\ last'.digest = last.digest)]_vars

\* C20: when the append of the rendered block fails with an I/O error,
\* publish_record does not return Published: a call that returns True has
\* written its block.
C20_UnwrittenBlockNotPublished ==
    (last.op = "publish" /\ ~last.io_ok) => (~last.ret /\ ~last.appended)

\* the required fields of a variant, in the order the decoders test them
RequiredFields(cls) ==
    CASE cls = NewsCls -> <<"text", "city">>
      [] cls = AdCls -> <<"text", "expiration_date">>
      [] cls = WeatherCls -> <<"text", "severity", "location">>

\* the ValueError whose message names the field
MissingField ==
    [text |-> "ValueError:text", city |-> "ValueError:city",
     expiration_date |-> "ValueError:expiration_date",
     severity |-> "ValueError:severity", location |-> "ValueError:location"]

RECURSIVE FirstEmpty(_, _)
\* the first of the fields that the payload leaves out or leaves empty, ""
\* when there is none
FirstEmpty(fields, data) ==
    IF fields = <<>> THEN ""
    ELSE IF Get(data, Head(fields)) = <<>> THEN Head(fields)
    ELSE FirstEmpty(Tail(fields), data)

\* C16: decoding a payload, JSON or XML, in which a required field of the
\* variant is absent or empty raises the error that names that field (the
\* first such field in the decoder's order) and constructs no record.
C16_MissingFieldNamed ==
    (/\ last.op = "decode"
     /\ FirstEmpty(RequiredFields(last.input[1].cls), last.input[1].data) # "")
        => (/\ last.raised
            /\ last.exc = MissingField[FirstEmpty(RequiredFields(last.input[1].cls),
                                                  last.input[1].data)]
            /\ last.out = <<>>)

C16_Witness ==
    /\ last.op = "decode"
    /\ last.input[1].src = "xml"
    /\ last.input[1].cls = WeatherCls
    /\ "location" \notin DOMAIN last.input[1].data
    /\ Get(last.input[1].data, "text") # <<>>
    /\ Get(last.input[1].data, "severity") # <<>>
    /\ last.raised
    /\ last.exc = "ValueError:location"
    /\ last.out = <<>>

\* C17: every record a decoder returns has a text that is non-empty after
\* trimming and non-empty required fields.
C17_BodyAndFieldsNonEmpty ==
    (last.op = "decode" /\ ~last.raised)
        => (/\ Strip(last.out[1].text) # <<>>
            /\ \A i \in 1..Len(RequiredFields(last.out[1].cls)) :
                  FieldOf(last.out[1], RequiredFields(last.out[1].cls)[i]) # <<>>)

\* the last call parsed and published the file of its processor's format
FileDone == last.op = "file" /\ last.input[1].file.fmt = last.input[1].processor

\* this step is such a call
FileCall == last.op = "none" /\ last'.op = "file" /\ file.fmt = last'.input[1].processor

\* the envelope's type tag, lower-cased, is none of news, private_ad,
\* weather_alert
UnknownType(e) == Lower(Get(e, "type")) \notin {"news", "private_ad", "weather_alert"}

\* the envelope has an unknown type or leaves a required field out or empty
Malformed(e) ==
    \/ UnknownType(e)
    \/ FirstEmpty(RequiredFields(RecordTypeMapping[Lower(e.type)]), e.data) # ""

\* the top level is a collection
CollectionTop(f) == IF f.fmt = "json" THEN "records" \in f.top ELSE f.top = {"records"}

\* the top level is neither a collection nor a single envelope
InvalidTop(f) ==
    IF f.fmt = "json"
    THEN "records" \notin f.top /\ ~({"type", "data"} \subseteq f.top)
    ELSE f.top # {"records"} /\ f.top # {"record"}

\* envelope k is the one malformed envelope, the others differ pairwise
OnlyMalformed(elems, k) ==
    /\ Malformed(elems[k])
    /\ \A i \in 1..Len(elems) : i # k => ~Malformed(elems[i])
    /\ \A i, j \in 1..Len(elems) : (i # j /\ i # k /\ j # k) => elems[i] # elems[j]

\* C13: for a collection of N envelopes of which exactly envelope k is
\* malformed, the others being valid and pairwise distinct, decoding and
\* publishing gives N-1 Published outcomes and one reported failure, for
\* envelope k.
C13_OneFailureRestPublished ==
    \A k \in 1..MaxBatch :
        (/\ FileDone
         /\ CollectionTop(last.input[1].file)
         /\ k <= Len(last.input[1].file.elems)
         /\ OnlyMalformed(last.input[1].file.elems, k))
            => (/\ Len(last.reports) = Len(last.input[1].file.elems)
                /\ \A i \in 1..Len(last.reports) : (last.reports[i] # "") <=> (i = k)
                /\ Len(last.outcomes) = Len(last.input[1].file.elems) - 1
                /\ \A i \in 1..Len(last.outcomes) : last.outcomes[i])

\* the envelopes of the file whose type is known
KnownTypes(f) == {i \in 1..Len(f.elems) : ~UnknownType(f.elems[i])}

\* C18: an envelope whose type tag, lower-cased, is not news, private_ad or
\* weather_alert fails to decode with the unknown-type error, in a single
\* envelope and in a collection: it gives no record, so no more records are
\* published, rows stored or blocks appended than there are envelopes of a
\* known type, and nothing at all when no envelope has a known type.
C18_UnknownTypeRejected ==
    [][(FileCall /\ ~InvalidTop(file))
       => (/\ Len(last'.reports) = Len(file.elems)
           /\ \A i \in 1..Len(file.elems) :
                 UnknownType(file.elems[i]) => last'.reports[i] = "KeyError"
           /\ Len(last'.outcomes) <= Cardinality(KnownTypes(file))
           /\ Len(log') - Len(log) <= Cardinality(KnownTypes(file))
           /\ \A tn \in TableNames :
                 Len(tables'[tn]) - Len(tables[tn]) <= Cardinality(KnownTypes(file))
           /\ KnownTypes(file) = {}
                 => (last'.outcomes = <<>> /\ log' = log /\ tables' = tables))]_vars

C18_Witness ==
    /\ FileDone
    /\ CollectionTop(last.input[1].file)
    /\ Len(last.input[1].file.elems) = 2
    /\ last.input[1].file.elems[1].type = "blog"
    /\ last.input[1].file.elems[2].type = "News"
    /\ ~last.persist
    /\ last.reports = <<"KeyError", "">>
    /\ last.outcomes = <<TRUE>>
    /\ Len(log) = 1

\* C19: a file whose top level is neither a collection nor a single
\* envelope makes the parser raise; the processor returns no record and
\* nothing is published, stored or appended.
C19_InvalidFormatIsHard ==
    [][(FileCall /\ InvalidTop(file))
       => (/\ last'.raised
           /\ last'.exc = "ValueError:format"
           /\ last'.reports = <<>>
           /\ last'.outcomes = <<>>
           /\ log' = log
           /\ tables' = tables
           /\ autoinc' = autoinc
           /\ file' = file)]_vars

C19_Witness ==
    /\ FileDone
    /\ last.input[1].file.fmt = "json"
    /\ last.input[1].file.top = {"type"}
    /\ last.raised
    /\ last.exc = "ValueError:format"
    /\ last.outcomes = <<>>
    /\ log = <<>>

\* ---- the city coordinate table on its own --------------------------------
\* the names and coordinate pairs a caller passes
CityNames ==
    {<<"L", "o">>, <<"l", "o">>, <<"L", "O">>, <<"S", "ã">>, <<"s", "ã">>, <<"S", "Ã">>}
SavedNames == {<<"L", "o">>, <<"l", "o">>, <<"S", "Ã">>}
Coordinates ==
    {<<LatLimit, LonLimit>>, <<-LatLimit, -LonLimit>>,
     <<LatLimit + 1, 0>>, <<-LatLimit - 1, 0>>,
     <<0, LonLimit + 1>>, <<0, -LonLimit - 1>>}

\* calculator.populate_initial_cities()
PopulateCities ==
    /\ cities' = PopulateInitialCities(cities)
    /\ last' = [NoCall EXCEPT !.n = last.n, !.op = "populate_initial_cities"]
    /\ UNCHANGED <<cur, tables, autoinc, log, now, inv, file>>

\* calculator.save_city_coordinates(city_name, latitude, longitude)
SaveCity ==
    /\ last.n < MaxCalls
    /\ \E city_name \in SavedNames, c \in Coordinates :
         /\ cities' = SaveCityCoordinates(cities, city_name, c[1], c[2], "").rows
         /\ last' = [NoCall EXCEPT
                       !.n = last.n + 1, !.op = "save_city_coordinates",
                       !.input = <<[city_name |-> city_name, latitude |-> c[1],
                                    longitude |-> c[2]]>>,
                       !.ret = SaveCityCoordinates(cities, city_name, c[1], c[2], "").ret]
    /\ UNCHANGED <<cur, tables, autoinc, log, now, inv, file>>

\* calculator.get_city_coordinates(city_name): fetchone() of a SELECT without
\* ORDER BY hands back whichever matching row the engine yields first
GetCity ==
    /\ \E city_name \in CityNames :
         \E out \in IF SelectCity(cities, city_name) = {} THEN {<<>>}
                    ELSE {<<<<cities[i].latitude, cities[i].longitude>>>> :
                            i \in SelectCity(cities, city_name)} :
           last' = [NoCall EXCEPT !.n = last.n, !.op = "get_city_coordinates",
                                  !.input = <<[city_name |-> city_name]>>,
                                  !.out = out]
    /\ UNCHANGED <<cur, tables, autoinc, log, now, inv, file, cities>>

NextCity == PopulateCities \/ SaveCity \/ GetCity

SpecCity == Init /\ [][NextCity]_vars

\* ---- bubble_sort_manual (HomeTask7.py) -----------------------------------
\* sorted_numbers[j], sorted_numbers[j + 1] = sorted_numbers[j + 1], sorted_numbers[j]
\* (j counts from 0 as in the code, the sequence from 1)
SwapAdjacent(sorted_numbers, j) ==
    [sorted_numbers EXCEPT ![j + 1] = sorted_numbers[j + 2],
                           ![j + 2] = sorted_numbers[j + 1]]

\* for j in range(0, n - i - 1): the list and the flag the loop leaves
RECURSIVE InnerLoop(_, _, _, _)
InnerLoop(sorted_numbers, j, stop, swapped) ==
    IF j >= stop THEN [sorted_numbers |-> sorted_numbers, swapped |-> swapped]
    ELSE IF sorted_numbers[j + 1] > sorted_numbers[j + 2]
         THEN InnerLoop(SwapAdjacent(sorted_numbers, j), j + 1, stop, TRUE)
         ELSE InnerLoop(sorted_numbers, j + 1, stop, swapped)

RECURSIVE OuterLoop(_, _, _)

\* a pass whose break is taken whether or not a swap occurred
AfterPass_BreakAlways(pass, i, n) == pass.sorted_numbers

\* if not swapped: break; otherwise on to the next i
AfterPass(pass, i, n) ==
    IF ~pass.swapped THEN pass.sorted_numbers
    ELSE OuterLoop(pass.sorted_numbers, i + 1, n)

\* for i in range(n)
OuterLoop(sorted_numbers, i, n) ==
    IF i >= n THEN sorted_numbers
    ELSE AfterPass(InnerLoop(sorted_numbers, 0, n - i - 1, FALSE), i, n)

\* bubble_sort_manual: the list it returns and the caller's list after the
\* call, every swap being made on numbers.copy()
BubbleSortManual(numbers) ==
    [ret |-> OuterLoop(numbers, 0, Len(numbers)), numbers |-> numbers]

\* the lists a caller passes
SortValues == {-1, 0, 1}
NumberLists == UNION {[1..n -> SortValues] : n \in 0..MaxLen}

\* sorted_list = bubble_sort_manual(numbers)
BubbleSort ==
    /\ \E numbers \in NumberLists :
         last' = [NoCall EXCEPT !.n = last.n, !.op = "bubble_sort_manual",
                                !.input = <<numbers>>,
                                !.out = <<BubbleSortManual(numbers).ret,
                                          BubbleSortManual(numbers).numbers>>]
    /\ UNCHANGED <<cur, tables, autoinc, log, now, inv, file, cities>>

NextSort == BubbleSort

SpecSort == Init /\ [][NextSort]_vars

\* ---- create_merged_dict (HomeTask7.py, HomeTask4.py) ----------------------
\* A dict is a function from its keys to its values.

\* str(n) of a number from 0 on
Digits == <<"0", "1", "2", "3", "4", "5", "6", "7", "8", "9">>
RECURSIVE Str(_)
Str(n) == IF n < 10 THEN <<Digits[n + 1]>> ELSE Str(n \div 10) \o <<Digits[(n % 10) + 1]>>

\* f"{key}_{max_dict_index + 1}"
NewKey(key, max_dict_index) == key \o <<"_">> \o Str(max_dict_index + 1)

\* the loop of find_key_max_value_and_dict_index from dict_index on
\* (dict_index counts from 0 as in the code)
RECURSIVE FindLoop(_, _, _, _, _)
FindLoop(dicts_list, key, dict_index, max_value, max_dict_index) ==
    IF dict_index >= Len(dicts_list)
    THEN [max_value |-> max_value, max_dict_index |-> max_dict_index]
    ELSE IF /\ key \in DOMAIN dicts_list[dict_index + 1]
            /\ dicts_list[dict_index + 1][key] > max_value
         THEN FindLoop(dicts_list, key, dict_index + 1,
                       dicts_list[dict_index + 1][key], dict_index)
         ELSE FindLoop(dicts_list, key, dict_index + 1, max_value, max_dict_index)

\* find_key_max_value_and_dict_index
FindKeyMaxValueAndDictIndex(dicts_list, key) == FindLoop(dicts_list, key, 0, -1, -1)

\* all_keys
AllKeys(dicts_list) == UNION {DOMAIN dicts_list[i] : i \in 1..Len(dicts_list)}

\* dicts_with_key
DictsWithKey(dicts_list, key) ==
    {i \in 1..Len(dicts_list) : key \in DOMAIN dicts_list[i]}

\* merged_dict[k] = v
SetItem(d, k, v) == [x \in DOMAIN d \cup {k} |-> IF x = k THEN v ELSE d[x]]

\* merged_dict[new_key] = max_value
SetMax(merged_dict, key, found) ==
    SetItem(merged_dict, NewKey(key, found.max_dict_index), found.max_value)

\* the body of "for key in all_keys" for one key
MergeKey(merged_dict, dicts_list, key) ==
    IF Cardinality(DictsWithKey(dicts_list, key)) = 1
    THEN SetItem(merged_dict, key,
                 dicts_list[CHOOSE i \in DictsWithKey(dicts_list, key) : TRUE][key])
    ELSE SetMax(merged_dict, key, FindKeyMaxValueAndDictIndex(dicts_list, key))

\* for key in all_keys, order being the order the set hands its keys out in
RECURSIVE MergeLoop(_, _, _)
MergeLoop(merged_dict, dicts_list, order) ==
    IF order = <<>> THEN merged_dict
    ELSE MergeLoop(MergeKey(merged_dict, dicts_list, Head(order)), dicts_list, Tail(order))

\* create_merged_dict
CreateMergedDict(dicts_list, order) == MergeLoop(<<>>, dicts_list, order)

\* the orders a set of strings can be iterated in (str hashes are salted
\* per process)
Orders(S) ==
    {o \in [1..Cardinality(S) -> S] : \A i, j \in 1..Cardinality(S) : o[i] = o[j] => i = j}

\* the lists a caller passes
MergeKeys == {<<"a">>, <<"a", "_", "1">>}
MergeValues == {-2, 0, 1}
Dicts == UNION {[D -> MergeValues] : D \in SUBSET MergeKeys}
DictLists == UNION {[1..n -> Dicts] : n \in 0..MaxDicts}

\* merged = create_merged_dict(dicts_list), called once
MergeDicts ==
    /\ last.op = "none"
    /\ \E dicts_list \in DictLists :
         \E order \in Orders(AllKeys(dicts_list)) :
           last' = [NoCall EXCEPT !.n = last.n, !.op = "create_merged_dict",
                                  !.input = <<dicts_list>>,
                                  !.out = <<CreateMergedDict(dicts_list, order)>>]
    /\ UNCHANGED <<cur, tables, autoinc, log, now, inv, file, cities>>

NextMerge == MergeDicts

SpecMerge == Init /\ [][NextMerge]_vars

\* the calendar day a tick falls on
CalendarDay(t) == t \div TicksPerDay

\* C21: a private ad decoded from XML whose expiration date is a calendar
\* date after the current date has days_left > 0 when from_xml_element
\* returns.
C21_DecodedAdHasDaysLeft ==
    (/\ last.op = "decode" /\ ~last.raised
     /\ last.input[1].src = "xml"
     /\ last.input[1].cls = AdCls
     /\ ~Strptime(last.out[1].expiration_date_str).raised
     /\ CalendarDay(Strptime(last.out[1].expiration_date_str).value)
            > CalendarDay(last.out[1].timestamp))
        => last.out[1].days_left > 0

\* C22: the days_left a private ad is rendered with is the expiration
\* calendar date minus the current calendar date, in whole days, whatever
\* the time of day.
C22_DaysLeftIsCalendarDifference ==
    [][(/\ PublishCall /\ last'.appended
        /\ last'.arg[1].cls = AdCls
        /\ Renders(last'.arg[1]))
       => log'[Len(log')].days_left =
              CalendarDay(Strptime(last'.arg[1].expiration_date_str).value)
                  - CalendarDay(now)]_vars

\* this step is a call of generate_content_hash, save_record or
\* publish_record on a weather alert
WeatherCall ==
    /\ last'.n = last.n + 1
    /\ last'.op \in {"hash", "save", "publish"}
    /\ last'.arg[1].cls = WeatherCls

\* C23: the alert_id a weather alert got at construction is the one it has
\* after every later operation on it; the rendered block shows that one.
C23_AlertIdKept ==
    [][WeatherCall
       => (/\ cur'[1].alert_id = last'.arg[1].alert_id
           /\ last'.appended => log'[Len(log')].alert_id = last'.arg[1].alert_id)]_vars

C23_Witness ==
    /\ last.op = "publish" /\ ~last.persist
    /\ last.ret /\ last.appended
    /\ last.arg[1].cls = WeatherCls
    /\ cur[1].alert_id = last.arg[1].alert_id
    /\ log[Len(log)].alert_id = last.arg[1].alert_id

\* str.lower() / str.upper() equivalence: two names that differ in the case
\* of their letters only
FoldChar(c) ==
    CASE c = "L" -> "l"
      [] c = "O" -> "o"
      [] c = "S" -> "s"
      [] c = "Ã" -> "ã"
      [] OTHER -> c
CaseFold(name) == [i \in 1..Len(name) |-> FoldChar(name[i])]

\* C24: for every stored city name, get_city_coordinates returns that row's
\* stored (latitude, longitude) for every upper/lower-case variant of the
\* name.
C24_LookupIgnoresCase ==
    last.op = "get_city_coordinates"
        => \A i \in 1..Len(cities) :
              CaseFold(cities[i].name) = CaseFold(last.input[1].city_name)
                  => last.out = <<<<cities[i].latitude, cities[i].longitude>>>>

\* C25: the table holds at most one row per case-insensitive city name.
C25_OneRowPerFoldedName ==
    \A i, j \in 1..Len(cities) :
        CaseFold(cities[i].name) = CaseFold(cities[j].name) => i = j

\* this step is a call of save_city_coordinates
SaveCityCall == last'.n = last.n + 1 /\ last'.op = "save_city_coordinates"

\* the latitude and longitude are within the limits, bounds included
InRange(c) ==
    /\ -90 <= c.latitude /\ c.latitude <= 90
    /\ -180 <= c.longitude /\ c.longitude <= 180

\* the rejection half of C28 taken alone: a save with a coordinate out of
\* range returns False and leaves the table unchanged, one in range returns
\* True
RangeDecidesSave ==
    [][SaveCityCall
       => IF InRange(last'.input[1])
          THEN last'.ret
          ELSE ~last'.ret /\ cities' = cities]_vars

\* C28: a save out of range returns False and leaves the table unchanged; a
\* save in range returns True, and the get_city_coordinates for that name
\* that follows it returns exactly the saved pair.
C28_SaveThenGet ==
    [][/\ SaveCityCall
          => IF InRange(last'.input[1])
             THEN last'.ret
             ELSE ~last'.ret /\ cities' = cities
       /\ (/\ last.op = "save_city_coordinates" /\ last.ret
           /\ last'.op = "get_city_coordinates"
           /\ last'.input[1].city_name = last.input[1].city_name)
          => last'.out = <<<<last.input[1].latitude, last.input[1].longitude>>>>]_vars

\* the number of times v occurs in s
Occurrences(s, v) == Cardinality({i \in 1..Len(s) : s[i] = v})

\* s ascends, equal neighbours allowed
NonDecreasing(s) == \A i \in 1..(Len(s) - 1) : s[i] <= s[i + 1]

\* C29: bubble_sort_manual returns a permutation of its input in
\* non-decreasing order and leaves the input list as it was; a return through
\* the early exit is sorted like any other.
C29_SortedPermutation ==
    last.op = "bubble_sort_manual"
        => /\ NonDecreasing(last.out[1])
           /\ Len(last.out[1]) = Len(last.input[1])
           /\ \A v \in -1..1 : Occurrences(last.out[1], v) = Occurrences(last.input[1], v)
           /\ last.out[2] = last.input[1]

\* an unsorted list with a repeated value that the early exit ends: one pass
\* puts it in order, the second finds nothing to swap
C29_Witness ==
    /\ last.op = "bubble_sort_manual"
    /\ last.input[1] = <<0, 1, -1, 1>>
    /\ last.out[1] = <<-1, 0, 1, 1>>
    /\ last.out[2] = <<0, 1, -1, 1>>

\* the positions of the dictionaries holding key, and the largest of its
\* values
Holders(dicts_list, key) == {i \in 1..Len(dicts_list) : key \in DOMAIN dicts_list[i]}
Largest(dicts_list, key) ==
    CHOOSE m \in {dicts_list[i][key] : i \in Holders(dicts_list, key)} :
        \A i \in Holders(dicts_list, key) : dicts_list[i][key] <= m
FirstWithLargest(dicts_list, key) ==
    CHOOSE n \in Holders(dicts_list, key) :
        /\ dicts_list[n][key] = Largest(dicts_list, key)
        /\ \A i \in Holders(dicts_list, key) :
              dicts_list[i][key] = Largest(dicts_list, key) => n <= i

\* what the merged dictionary has to say about one key of the input
MergedAsClaimed(merged, dicts_list, key) ==
    IF Cardinality(Holders(dicts_list, key)) = 1
    THEN /\ key \in DOMAIN merged
         /\ merged[key] = dicts_list[CHOOSE i \in Holders(dicts_list, key) : TRUE][key]
    ELSE /\ key \o <<"_">> \o Str(FirstWithLargest(dicts_list, key)) \in DOMAIN merged
         /\ merged[key \o <<"_">> \o Str(FirstWithLargest(dicts_list, key))]
                = Largest(dicts_list, key)

\* C30: in the dictionary create_merged_dict returns, a key of exactly one
\* input dictionary appears unchanged with its value, and a key of several
\* appears as '<key>_<n>' with the maximum of its values, n being the 1-based
\* position of the first dictionary holding that maximum.
C30_MergedAsClaimed ==
    last.op = "create_merged_dict"
        => \A key \in UNION {DOMAIN last.input[1][i] : i \in 1..Len(last.input[1])} :
              MergedAsClaimed(last.out[1], last.input[1], key)

====
